---- MODULE Spec2Model ----
(***************************************************************************)
(* Model of shelly-waybar (src/src/main.rs): the poll loop that fetches    *)
(* every configured Shelly device, classifies and renders its status,      *)
(* tracks door transitions and prints one merged Waybar payload per cycle. *)
(*                                                                         *)
(* Strings the code inspects character by character (device arguments,     *)
(* declared types, ids, names) are sequences of one-character strings.     *)
(* Rendered texts are TLA+ strings built with \o.                          *)
(* An Option<T> is a sequence: <<>> is None, <<x>> is Some(x).             *)
(***************************************************************************)
EXTENDS Integers, Sequences, FiniteSets, TLC

(***************************************************************************)
(* Bounds of the model.                                                    *)
(***************************************************************************)
MaxCycles == 3

(***************************************************************************)
(* Character strings.                                                      *)
(***************************************************************************)
UpperChars == <<"A","B","C","D","E","F","G","H","I","J","K","L","M",
                "N","O","P","Q","R","S","T","U","V","W","X","Y","Z">>
LowerChars == <<"a","b","c","d","e","f","g","h","i","j","k","l","m",
                "n","o","p","q","r","s","t","u","v","w","x","y","z">>

\* char::to_lowercase on the ASCII letters; every other character is kept.
LowerChar(c) ==
    IF \E i \in DOMAIN UpperChars : UpperChars[i] = c
    THEN LowerChars[CHOOSE i \in DOMAIN UpperChars : UpperChars[i] = c]
    ELSE c

\* str::to_lowercase
to_lowercase(s) == [i \in DOMAIN s |-> LowerChar(s[i])]

\* The text of a character string (what format!("{}", s) prints).
RECURSIVE Display(_)
Display(s) == IF s = <<>> THEN "" ELSE Head(s) \o Display(Tail(s))

\* Option<String>::unwrap_or_default / unwrap_or_else on a name
unwrap_or(opt, dflt) == IF opt = <<>> THEN dflt ELSE opt[1]

(***************************************************************************)
(* parse_device_info: device.splitn(3, ':')                                *)
(***************************************************************************)
Colons(s) == {i \in DOMAIN s : s[i] = ":"}
FirstColon(s, from) == CHOOSE i \in Colons(s) :
                          i >= from /\ \A j \in Colons(s) : j >= from => i <= j
HasColon(s, from) == \E i \in Colons(s) : i >= from

\* the parts of splitn(3, ':'): at most three, the third keeps its colons
splitn3(s) ==
    IF ~HasColon(s, 1) THEN <<s>>
    ELSE LET c1 == FirstColon(s, 1) IN
         IF ~HasColon(s, c1 + 1)
         THEN <<SubSeq(s, 1, c1 - 1), SubSeq(s, c1 + 1, Len(s))>>
         ELSE LET c2 == FirstColon(s, c1 + 1) IN
              <<SubSeq(s, 1, c1 - 1), SubSeq(s, c1 + 1, c2 - 1),
                SubSeq(s, c2 + 1, Len(s))>>

\* Option<(device_type_str, device_id, device_name)> and the line logged
parse_device_info(device) ==
    LET parts == splitn3(device) IN
    IF Len(parts) < 2
    THEN [val |-> <<>>, log |-> <<"Invalid device format: " \o Display(device)>>]
    ELSE [val |-> << [device_type_str |-> parts[1],
                      device_id       |-> parts[2],
                      device_name     |-> IF Len(parts) >= 3 THEN <<parts[3]>> ELSE <<>>] >>,
          log |-> <<>>]

(***************************************************************************)
(* Device kinds and classification.                                        *)
(***************************************************************************)
DeviceType == {"Temperature", "Plug", "Door", "Window"}

W_temperature == <<"t","e","m","p","e","r","a","t","u","r","e">>
W_plug        == <<"p","l","u","g">>
W_door        == <<"d","o","o","r">>
W_window      == <<"w","i","n","d","o","w">>

\* match_device_type without to_lowercase (mutant)
match_device_type_exact(device_type_str) ==
    IF device_type_str = W_temperature THEN <<"Temperature">>
    ELSE IF device_type_str = W_plug THEN <<"Plug">>
    ELSE IF device_type_str = W_door THEN <<"Door">>
    ELSE IF device_type_str = W_window THEN <<"Window">>
    ELSE <<>>

match_device_type(device_type_str) ==
    LET l == to_lowercase(device_type_str) IN
    IF l = W_temperature THEN <<"Temperature">>
    ELSE IF l = W_plug THEN <<"Plug">>
    ELSE IF l = W_door THEN <<"Door">>
    ELSE IF l = W_window THEN <<"Window">>
    ELSE <<>>

match_device_type_log(device_type_str) ==
    IF match_device_type(device_type_str) = <<>>
    THEN <<"Unsupported device type: '" \o Display(device_type_str)
           \o "'. Supported types are: temperature, plug, door, window.">>
    ELSE <<>>

\* A status payload (serde_json Value): the marker keys it holds and the value
\* of ["window:0"]["open"]: "true", "false", or "absent" (missing or no bool).
\* Every other sensor field is absent, so the renderers take their defaults.
Markers == {"temperature:0", "humidity:0", "switch:0", "window:0", "tilt:0"}
Payloads ==
    { [keys |-> k, open |-> o] : k \in SUBSET Markers, o \in {"true", "false", "absent"} }
    \ { p \in [keys : SUBSET Markers, open : {"true", "false"}] : "window:0" \notin p.keys }

\* autodetect_device_type with the window and tilt tests swapped (mutant)
autodetect_device_type_swapped(json) ==
    IF "temperature:0" \in json.keys \/ "humidity:0" \in json.keys THEN <<"Temperature">>
    ELSE IF "switch:0" \in json.keys THEN <<"Plug">>
    ELSE IF "tilt:0" \in json.keys THEN <<"Window">>
    ELSE IF "window:0" \in json.keys THEN <<"Door">>
    ELSE <<>>

autodetect_device_type(json) ==
    IF "temperature:0" \in json.keys \/ "humidity:0" \in json.keys THEN <<"Temperature">>
    ELSE IF "switch:0" \in json.keys THEN <<"Plug">>
    ELSE IF "window:0" \in json.keys THEN <<"Door">>
    ELSE IF "tilt:0" \in json.keys THEN <<"Window">>
    ELSE <<>>

autodetect_device_type_log(json) ==
    IF autodetect_device_type(json) = <<>>
    THEN <<"Unable to autodetect device type.">> ELSE <<>>

\* process_device, lines 126-130, with a fallback to the payload when the
\* declared type is not recognised (mutant)
classify_fallback(device_type_str, device_status) ==
    IF device_type_str = <<>> \/ match_device_type(device_type_str) = <<>>
    THEN autodetect_device_type(device_status)
    ELSE match_device_type(device_type_str)

\* process_device, lines 126-130: the declared type decides when there is one
classify(device_type_str, device_status) ==
    IF device_type_str = <<>>
    THEN autodetect_device_type(device_status)
    ELSE match_device_type(device_type_str)

classify_log(device_type_str, device_status) ==
    IF device_type_str = <<>>
    THEN autodetect_device_type_log(device_status)
    ELSE match_device_type_log(device_type_str)

(***************************************************************************)
(* Rendering.  Absent numeric fields print as their unwrap_or defaults:    *)
(* {:.1} of 0.0 is "0.0", {:.3} of 0.0 is "0.000", integers are "0".       *)
(***************************************************************************)
OutputFormat == {"Short", "Long", "Icons"}

is_open_of(device_status) ==
    "window:0" \in device_status.keys /\ device_status.open = "true"

parse_temperature_data(device_status, format, unit) ==
    LET unit_label == IF unit = "F" THEN "°F" ELSE "°C" IN
    CASE format = "Short" ->
           [text    |-> "T: 0.0" \o unit_label \o " H: 0%",
            tooltip |-> "B: 0% RSSI: 0dBm"]
      [] format = "Long" ->
           [text    |-> "Temp: 0.0" \o unit_label \o " Humidity: 0%",
            tooltip |-> "Battery: 0% RSSI: 0dBm"]
      [] format = "Icons" ->
           [text    |-> "[thermometer]0.0" \o unit_label \o " [droplet]0%",
            tooltip |-> "[battery]0% [signal]0dBm"]

parse_plug_data(device_status, format) ==
    LET output_state == "OFF" IN
    CASE format = "Short" ->
           [text    |-> "P: 0.0W V: 0.0V",
            tooltip |-> "I: 0.000A RSSI: 0dBm O: " \o output_state]
      [] format = "Long" ->
           [text    |-> "Power: 0.0W Voltage: 0.0V",
            tooltip |-> "Current: 0.000A WiFi RSSI: 0dBm Output: " \o output_state]
      [] format = "Icons" ->
           [text    |-> "[bolt]0.0W [plug]0.0V",
            tooltip |-> "[battery]0.000A [signal]0dBm [bright]" \o output_state]

parse_window_or_door_data(device_status, is_window, format) ==
    LET is_open == is_open_of(device_status)
        state   == IF is_open THEN "Open" ELSE "Closed"
        tilt    == IF is_window THEN ", Tilt: 0" ELSE ""
    IN
    CASE format = "Short" ->
           [text    |-> state \o ": L: 0" \o tilt,
            tooltip |-> "B: 0% RSSI: 0dBm"]
      [] format = "Long" ->
           [text    |-> state \o ", Lux: 0" \o tilt,
            tooltip |-> "Battery: 0% RSSI: 0dBm"]
      [] format = "Icons" ->
           [text    |-> (IF is_open THEN "[green]" ELSE "[red]") \o " [bright]0" \o tilt,
            tooltip |-> "[battery]0% [signal]0dBm"]

\* process_device, lines 149-161: the display name is added to the fragment
add_device_name(output, device_name) ==
    IF device_name = <<>> THEN output
    ELSE [text    |-> output.text \o " (" \o Display(device_name[1]) \o ")",
          tooltip |-> "Device: " \o Display(device_name[1]) \o "\n" \o output.tooltip]

(***************************************************************************)
(* The door history: a HashMap<String, bool>, a function on its keys.      *)
(***************************************************************************)
EmptyMap == [k \in {} |-> FALSE]

insert(map, key, value) ==
    [k \in DOMAIN map \cup {key} |-> IF k = key THEN value ELSE map[k]]

get(map, key) == IF key \in DOMAIN map THEN <<map[key]>> ELSE <<>>

status_key_of(device_id, device_name) ==
    device_id \o <<":">> \o unwrap_or(device_name, <<>>)

\* handle_door_status, lines 263-264, alerting on a door never seen (mutant)
door_changed_or_new(prev, is_open) == prev = <<>> \/ prev[1] # is_open

\* handle_door_status, lines 263-264: a stored value that differs
door_changed(prev, is_open) == prev # <<>> /\ prev[1] # is_open

\* handle_door_status.  show_ok is whether Notification::show() succeeds.
\* ret is the Option<()> returned; notification is what show() was called with.
handle_door_status(device_id, device_name, device_status, door_status_map, show_ok) ==
    LET is_open    == is_open_of(device_status)
        status_key == status_key_of(device_id, device_name)
        prev       == get(door_status_map, status_key)
        alert      == door_changed(prev, is_open)
        state      == IF is_open THEN "Open" ELSE "Closed"
        name       == IF device_name = <<>> THEN "Unnamed Door" ELSE Display(device_name[1])
        note       == IF alert
                      THEN << [summary |-> "Door Status Changed: " \o name,
                               body    |-> "The door is now " \o state] >>
                      ELSE <<>>
    IN
    IF alert /\ ~show_ok
    THEN [ret |-> <<>>, map |-> door_status_map, notification |-> note,
          key |-> status_key, is_open |-> is_open, prev |-> prev, shown |-> FALSE]
    ELSE [ret |-> <<TRUE>>, map |-> insert(door_status_map, status_key, is_open),
          notification |-> note,
          key |-> status_key, is_open |-> is_open, prev |-> prev, shown |-> alert]

(***************************************************************************)
(* fetch_device_status.  A response of the status endpoint is a transport  *)
(* failure, a body that does not decode, or a decoded ShellyResponse.      *)
(***************************************************************************)
Responses ==
    { [kind |-> "transport"], [kind |-> "decode"] }
    \cup { [kind |-> "json", isok |-> FALSE, errors |-> e, data |-> <<>>] :
              e \in {"none", "invalid_token", "other"} }
    \cup { [kind |-> "json", isok |-> TRUE, errors |-> "none", data |-> <<>>],
           [kind |-> "json", isok |-> TRUE, errors |-> "none",
            data |-> << [device_status |-> <<>>] >>] }
    \cup { [kind |-> "json", isok |-> TRUE, errors |-> "none",
            data |-> << [device_status |-> <<p>>] >>] : p \in Payloads }

fetch_device_status(response) ==
    IF response.kind # "json" THEN [val |-> <<>>, log |-> <<>>]
    ELSE IF ~response.isok
    THEN [val |-> <<>>,
          log |-> IF response.errors = "invalid_token"
                  THEN <<"Error: Invalid token - ">>
                  ELSE IF response.errors = "other"
                  THEN <<"Error: API returned an error - ">>
                  ELSE <<"Error: Unknown error occurred.">>]
    ELSE IF response.data = <<>> THEN [val |-> <<>>, log |-> <<>>]
    ELSE [val |-> response.data[1].device_status, log |-> <<>>]

(***************************************************************************)
(* process_device: one configured device, from its argument to its         *)
(* fragment.  stage names the place where it returned.                     *)
(***************************************************************************)
NoDoor == <<>>

process_device(device, args, response, show_ok, door_status_map) ==
    LET info == parse_device_info(device) IN
    IF info.val = <<>>
    THEN [out |-> <<>>, map |-> door_status_map, log |-> info.log,
          stage |-> "parse", door |-> NoDoor]
    ELSE
    LET d       == info.val[1]
        fetched == fetch_device_status(response) IN
    IF fetched.val = <<>>
    THEN [out |-> <<>>, map |-> door_status_map, log |-> fetched.log,
          stage |-> "fetch", door |-> NoDoor]
    ELSE
    LET device_status == fetched.val[1]
        device_type   == classify(d.device_type_str, device_status) IN
    IF device_type = <<>>
    THEN [out |-> <<>>, map |-> door_status_map,
          log |-> classify_log(d.device_type_str, device_status),
          stage |-> "classify", door |-> NoDoor]
    ELSE
    CASE device_type[1] = "Temperature" ->
           [out |-> << add_device_name(
                         parse_temperature_data(device_status, args.format, args.unit),
                         d.device_name) >>,
            map |-> door_status_map, log |-> <<>>, stage |-> "done", door |-> NoDoor]
      [] device_type[1] = "Plug" ->
           [out |-> << add_device_name(parse_plug_data(device_status, args.format),
                                       d.device_name) >>,
            map |-> door_status_map, log |-> <<>>, stage |-> "done", door |-> NoDoor]
      [] device_type[1] = "Window" ->
           [out |-> << add_device_name(
                         parse_window_or_door_data(device_status, TRUE, args.format),
                         d.device_name) >>,
            map |-> door_status_map, log |-> <<>>, stage |-> "done", door |-> NoDoor]
      [] device_type[1] = "Door" ->
           LET h == handle_door_status(d.device_id, d.device_name, device_status,
                                       door_status_map, show_ok) IN
           IF h.ret = <<>>
           THEN [out |-> <<>>, map |-> h.map, log |-> <<>>,
                 stage |-> "door", door |-> <<h>>]
           ELSE [out |-> << add_device_name(
                              parse_window_or_door_data(device_status, FALSE, args.format),
                              d.device_name) >>,
                 map |-> h.map, log |-> <<>>, stage |-> "done", door |-> <<h>>]

(***************************************************************************)
(* Args: the configurations the loop is run with.                          *)
(***************************************************************************)
D_door_named   == <<"D","o","o","r",":","d","1",":","F">>
D_auto_named   == <<":","d","3",":","G">>
D_plug         == <<"p","l","u","g",":","p","1">>
D_bad          == <<"b","a","d">>
D_door_unnamed == <<"d","o","o","r",":","d","2">>
D_lamp         == <<"l","a","m","p",":","x">>
D_auto         == <<":","t","1">>
D_window_named == <<"W","I","N","D","O","W",":","w",":","a",":","b">>

Configs ==
    { [devices |-> <<D_door_named, D_auto_named>>,
       waybar_separator |-> " | ", format |-> "Long", unit |-> "C"],
      [devices |-> <<D_plug, D_bad, D_door_unnamed>>,
       waybar_separator |-> " - ", format |-> "Short", unit |-> "F"],
      [devices |-> <<D_lamp, D_auto, D_window_named>>,
       waybar_separator |-> " | ", format |-> "Icons", unit |-> "C"] }

Producers == {"poll", "push"}

(***************************************************************************)
(* process_devices_loop                                                    *)
(***************************************************************************)
VARIABLES
    args,             \* the parsed command line
    door_status_map,  \* HashMap<String, bool>, line 79
    outputs,          \* Vec<Value> of the cycle, line 82
    idx,              \* position of the for loop in args.devices, line 84
    pc,               \* "devices", "publish", "sleep", or "exit" (loop left)
    cycle,            \* number of the loop iteration
    stdout,           \* lines printed to the output stream in this cycle
    stderr,           \* lines printed to the diagnostic stream in this cycle
    last,             \* what the latest process_device call did
    ok_now,           \* positions whose process_device returned Some in this cycle
    ever_ok,          \* device ids whose process_device has returned Some so far
    table,            \* Shared Status Table: device id -> entry
    lock,             \* the table's lock: "free" or the producer holding it
    ppc,              \* each producer's position
    version,          \* each producer's number of upserts begun
    completed,        \* each producer's number of upserts completed
    snapshot,         \* <<>> or the latest snapshot with the completions it followed
    cl_in,            \* a declared type and a payload handed to the classifier
    cl_out            \* <<>> before the call, <<result>> after it

loop_vars == <<args, door_status_map, outputs, idx, pc, cycle, stdout, stderr,
               last, ok_now, ever_ok>>
class_vars == <<cl_in, cl_out>>
table_vars == <<table, lock, ppc, version, completed, snapshot>>
vars == <<loop_vars, class_vars, table_vars>>

NoCall == [idx |-> 0, stage |-> "none", door |-> NoDoor]

\* [T]::join(sep), as the standard library computes it: the first item, then
\* the separator and the item for each one that follows
RECURSIVE join(_, _)
join(items, sep) ==
    IF items = <<>> THEN ""
    ELSE IF Len(items) = 1 THEN items[1]
    ELSE join(SubSeq(items, 1, Len(items) - 1), sep) \o sep \o items[Len(items)]

texts(outs)    == [i \in DOMAIN outs |-> outs[i].text]
tooltips(outs) == [i \in DOMAIN outs |-> outs[i].tooltip]

\* lines 91-109 with the tooltips joined by the separator as well (mutant)
publish_same_separator(outs, a) ==
    IF outs = <<>>
    THEN [out |-> <<>>, err |-> <<"Error: No valid device data found.">>]
    ELSE [out |-> << [text    |-> join(texts(outs), a.waybar_separator),
                      tooltip |-> join(tooltips(outs), a.waybar_separator)] >>,
          err |-> <<>>]

\* lines 91-109: what one cycle writes to the two streams
publish(outs, a) ==
    IF outs = <<>>
    THEN [out |-> <<>>, err |-> <<"Error: No valid device data found.">>]
    ELSE [out |-> << [text    |-> join(texts(outs), a.waybar_separator),
                      tooltip |-> join(tooltips(outs), "\n")] >>,
          err |-> <<>>]

\* line 82 with the vector declared outside the loop (mutant)
new_outputs_kept(outs) == outs

\* line 82: let mut outputs = Vec::new()
new_outputs(outs) == <<>>

\* lines 84-89 with the failure of a device propagated out of the loop (mutant)
next_pc_propagate(i, n, out) ==
    IF out = <<>> THEN "exit" ELSE IF i < n THEN "devices" ELSE "publish"

\* lines 84-89 with the publishing moved into the body of the for loop (mutant)
next_pc_publish_each(i, n, out) == "publish"

\* lines 84-89: the for loop goes on to the next device whatever the result
next_pc(i, n, out) == IF i < n THEN "devices" ELSE "publish"

\* lines 85-88
push_output(outs, out) == IF out = <<>> THEN outs ELSE Append(outs, out[1])

device_id_of(device) ==
    LET info == parse_device_info(device) IN
    IF info.val = <<>> THEN <<>> ELSE <<info.val[1].device_id>>

LoopInit ==
    /\ args \in Configs
    /\ door_status_map = EmptyMap
    /\ outputs = <<>>
    /\ idx = 1
    /\ pc = "devices"
    /\ cycle = 1
    /\ stdout = <<>>
    /\ stderr = <<>>
    /\ last = NoCall
    /\ ok_now = <<>>
    /\ ever_ok = {}

ClassIdle ==
    /\ cl_in = [declared |-> <<>>, raw |-> [keys |-> {}, open |-> "absent"]]
    /\ cl_out = <<>>

TableIdle ==
    /\ table = EmptyMap
    /\ lock = "free"
    /\ ppc = [p \in Producers |-> "idle"]
    /\ version = [p \in Producers |-> 0]
    /\ completed = [p \in Producers |-> 0]
    /\ snapshot = <<>>

Init == LoopInit /\ ClassIdle /\ TableIdle

\* lines 84-89: one iteration of the for loop
ProcessDevice ==
    /\ pc = "devices"
    /\ idx <= Len(args.devices)
    /\ \E response \in Responses, show_ok \in BOOLEAN :
         LET r == process_device(args.devices[idx], args, response, show_ok,
                                 door_status_map)
         IN
         /\ door_status_map' = r.map
         /\ outputs' = push_output(outputs, r.out)
         /\ stderr' = stderr \o r.log
         /\ last' = [idx |-> idx, stage |-> r.stage, door |-> r.door]
         /\ ok_now' = IF r.out = <<>> THEN ok_now ELSE Append(ok_now, idx)
         /\ ever_ok' = IF r.out = <<>> THEN ever_ok
                       ELSE ever_ok \cup {device_id_of(args.devices[idx])[1]}
         /\ pc' = next_pc(idx, Len(args.devices), r.out)
    /\ idx' = idx + 1
    /\ UNCHANGED <<args, cycle, stdout, class_vars, table_vars>>

\* lines 91-109
Publish ==
    /\ pc = "publish"
    /\ LET w == publish(outputs, args) IN
         /\ stdout' = stdout \o w.out
         /\ stderr' = stderr \o w.err
    /\ pc' = "sleep"
    /\ UNCHANGED <<args, door_status_map, outputs, idx, cycle, last, ok_now, ever_ok,
                   class_vars, table_vars>>

\* lines 111 and 81-82: the sleep ends and the next iteration begins
Sleep ==
    /\ pc = "sleep"
    /\ cycle < MaxCycles
    /\ cycle' = cycle + 1
    /\ outputs' = new_outputs(outputs)
    /\ idx' = 1
    /\ pc' = "devices"
    /\ stdout' = <<>>
    /\ stderr' = <<>>
    /\ last' = NoCall
    /\ ok_now' = <<>>
    /\ UNCHANGED <<args, door_status_map, ever_ok, class_vars, table_vars>>

Next == ProcessDevice \/ Publish \/ Sleep

Spec == Init /\ [][Next]_vars

(***************************************************************************)
(* The classifier on its own: every declared type of DeclaredStrings with  *)
(* every payload of Payloads.                                              *)
(***************************************************************************)
DeclaredStrings ==
    { <<>>,
      W_door, <<"D","o","o","r">>, <<"D","O","O","R">>, <<"d","O","o","R">>,
      W_plug, <<"P","L","U","G">>, <<"P","l","u","g">>,
      W_window, <<"W","i","n","d","o","w">>, <<"W","I","N","D","O","W">>,
      W_temperature, <<"T","e","m","p","e","r","a","t","u","r","e">>,
      <<"T","E","M","P","E","R","A","T","U","R","E">>,
      <<"d","o","o","r","s">>, <<"d","o","o">>, <<"d","0","0","r">>,
      <<"l","a","m","p">>, <<"u","n","k","n","o","w","n">>,
      <<"s","w","i","t","c","h">>, <<"t","i","l","t">>, <<" ","d","o","o","r">> }

ClassInit ==
    /\ LoopInit /\ TableIdle
    /\ cl_in \in [declared : DeclaredStrings, raw : Payloads]
    /\ cl_out = <<>>

\* process_device, lines 126-130, applied to the input
Classify ==
    /\ cl_out = <<>>
    /\ cl_out' = << classify(cl_in.declared, cl_in.raw) >>
    /\ UNCHANGED <<cl_in, loop_vars, table_vars>>

ClassNext == Classify

SpecClassify == ClassInit /\ [][ClassNext]_vars

(***************************************************************************)
(* Properties of handle_door_status.                                       *)
(***************************************************************************)
DoorCalled == last.door # NoDoor
DoorCall   == last.door[1]

\* C1: an observation of a door raises an alert if and only if the history
\* held a value for the door's composite key before the call and that value
\* differs from the observed is_open; an equal value raises no alert.
C1_AlertIffChanged ==
    [][ (pc = "devices" /\ last'.door # NoDoor) =>
          LET h == last'.door[1] IN
          (h.notification # <<>>) <=>
             (h.key \in DOMAIN door_status_map /\ door_status_map[h.key] # h.is_open)
      ]_vars

\* a third observation of a door, closed after closed, that raised no alert
\* although the door had alerted before (the history holds FALSE after TRUE
\* only through a change)
C1_Witness ==
    /\ DoorCalled
    /\ cycle = 3
    /\ DoorCall.prev = <<FALSE>>
    /\ ~DoorCall.is_open
    /\ DoorCall.notification = <<>>

\* C2 as stated: the first observation of a door produces an alert and
\* stores the observed value.
C2_FirstObservationAlerts ==
    (DoorCalled /\ DoorCall.prev = <<>>) =>
        /\ DoorCall.notification # <<>>
        /\ get(door_status_map, DoorCall.key) = <<DoorCall.is_open>>

\* C2, amended: the first observation of a door raises no alert, returns
\* Some(()) and stores the observed value.
C2_FirstObservationStores ==
    (DoorCalled /\ DoorCall.prev = <<>>) =>
        /\ DoorCall.notification = <<>>
        /\ DoorCall.ret = <<TRUE>>
        /\ get(door_status_map, DoorCall.key) = <<DoorCall.is_open>>

C2_Witness ==
    /\ DoorCalled
    /\ DoorCall.prev = <<>>
    /\ DoorCall.is_open
    /\ get(door_status_map, DoorCall.key) = <<TRUE>>

\* C3: after every call of handle_door_status the history maps the door's
\* key to the value just observed, also when the alert could not be shown.
C3_HistoryAlwaysWritten ==
    DoorCalled => get(door_status_map, DoorCall.key) = <<DoorCall.is_open>>

\* C4: a notification that cannot be shown is not fatal: the door that
\* changed is still rendered into the cycle's outputs and the loop goes on.
C4_FailedAlertStillRendered ==
    (DoorCalled /\ DoorCall.notification # <<>> /\ ~DoorCall.shown) =>
        /\ \E i \in DOMAIN ok_now : ok_now[i] = last.idx
        /\ pc \in {"devices", "publish", "sleep"}

(***************************************************************************)
(* Properties of the loop.                                                 *)
(***************************************************************************)
\* the items with sep between each two neighbours, from the head
RECURSIVE Joined(_, _)
Joined(items, sep) ==
    IF items = <<>> THEN ""
    ELSE IF Tail(items) = <<>> THEN Head(items)
    ELSE Head(items) \o sep \o Joined(Tail(items), sep)

NoData == "Error: No valid device data found."

\* C5: a cycle with no fragment writes nothing to the output stream and
\* logs the "no data" line; a cycle with fragments writes exactly one payload,
\* its text the fragments' texts joined by the separator and its tooltip the
\* fragments' tooltips joined by newline, both in device order.
C5_Publish ==
    pc = "sleep" =>
        IF outputs = <<>>
        THEN /\ stdout = <<>>
             /\ stderr # <<>> /\ stderr[Len(stderr)] = NoData
        ELSE /\ Len(stdout) = 1
             /\ stdout[1].text =
                  Joined([i \in DOMAIN outputs |-> outputs[i].text], args.waybar_separator)
             /\ stdout[1].tooltip =
                  Joined([i \in DOMAIN outputs |-> outputs[i].tooltip], "\n")
             /\ \A i \in DOMAIN stderr : stderr[i] # NoData

C5_Witness ==
    /\ pc = "sleep"
    /\ Len(outputs) >= 2
    /\ args.waybar_separator = " - "
    /\ Len(stdout) = 1

IdsOfCycle == { device_id_of(args.devices[ok_now[i]])[1] : i \in DOMAIN ok_now }

\* C6 as stated: every snapshot holds exactly one fragment for each device
\* id processed successfully in this or any earlier cycle.
C6_SnapshotHasAllEver ==
    (pc = "sleep" /\ stdout # <<>>) =>
        /\ IdsOfCycle = ever_ok
        /\ Len(outputs) = Cardinality(ever_ok)

\* C6, amended: every snapshot holds exactly one fragment for each
\* configured device processed successfully in the current cycle, in
\* configuration order, and none for any other device.
C6_SnapshotHasThisCycle ==
    pc \in {"publish", "sleep"} =>
        /\ Len(outputs) = Len(ok_now)
        /\ \A i, j \in DOMAIN ok_now : i < j => ok_now[i] < ok_now[j]
        /\ \A i \in DOMAIN ok_now : ok_now[i] \in DOMAIN args.devices
        /\ IdsOfCycle \subseteq ever_ok
        /\ (pc = "sleep" /\ ok_now # <<>>) => Len(stdout) = 1

\* a later cycle whose snapshot lacks a device of an earlier snapshot
C6_Witness ==
    /\ pc = "sleep"
    /\ cycle >= 2
    /\ stdout # <<>>
    /\ IdsOfCycle # ever_ok

Failed == {"parse", "fetch", "classify"}

\* C7: a device whose entry is malformed, whose fetch fails or whose kind is
\* unknown adds nothing to the cycle's outputs; the for loop goes on with the
\* next device, or to the publishing after the last one, and the loop is
\* never left.
C7_FailureContained ==
    /\ [](pc \in {"devices", "publish", "sleep"})
    /\ [](pc = "devices" => idx <= Len(args.devices))
    /\ [](pc \in {"publish", "sleep"} => idx = Len(args.devices) + 1)
    /\ [][ (pc = "devices" /\ last'.stage \in Failed) =>
             /\ outputs' = outputs
             /\ door_status_map' = door_status_map
             /\ idx' = idx + 1
             /\ pc' = IF idx < Len(args.devices) THEN "devices" ELSE "publish"
         ]_vars

\* a later cycle in which a device failed and the last device was rendered
C7_Witness ==
    /\ pc = "sleep"
    /\ cycle >= 2
    /\ ok_now # <<>>
    /\ Len(ok_now) < Len(args.devices)
    /\ ok_now[Len(ok_now)] = Len(args.devices)
    /\ D_bad \in {args.devices[i] : i \in DOMAIN args.devices}

\* C11: in every cycle the devices are processed one by one in
\* configuration order, nothing is written to the output stream before the
\* last of them is done, the publishing then writes at most one line (one
\* line if a device succeeded, none otherwise), and only after it does the
\* loop sleep and begin the next cycle at the first device.
C11_CycleOrder ==
    /\ [](pc \in {"devices", "publish"} => stdout = <<>>)
    /\ [](pc \in {"publish", "sleep"} => idx = Len(args.devices) + 1)
    /\ [](pc = "sleep" => Len(stdout) = IF ok_now = <<>> THEN 0 ELSE 1)
    /\ [][ /\ pc = "devices" =>
                /\ last'.idx = idx
                /\ idx' = idx + 1
                /\ cycle' = cycle
                /\ stdout' = stdout
                /\ pc' = IF idx = Len(args.devices) THEN "publish" ELSE "devices"
           /\ pc = "publish" =>
                /\ pc' = "sleep"
                /\ idx' = idx /\ cycle' = cycle /\ outputs' = outputs
                /\ Len(stdout') <= 1
           /\ pc = "sleep" =>
                /\ pc' = "devices"
                /\ idx' = 1 /\ cycle' = cycle + 1 /\ outputs' = <<>>
         ]_vars

\* a second cycle that processed all its devices, then printed its one line
C11_Witness ==
    /\ pc = "sleep"
    /\ cycle = 2
    /\ Len(args.devices) >= 2
    /\ ok_now = [i \in DOMAIN args.devices |-> i]
    /\ last.idx = Len(args.devices)
    /\ Len(stdout) = 1

(***************************************************************************)
(* Properties of the classifier.                                           *)
(***************************************************************************)
Priority ==
    << [markers |-> {"temperature:0", "humidity:0"}, kind |-> "Temperature"],
       [markers |-> {"switch:0"},                     kind |-> "Plug"],
       [markers |-> {"window:0"},                     kind |-> "Door"],
       [markers |-> {"tilt:0"},                       kind |-> "Window"] >>

Present(keys) == { i \in DOMAIN Priority : Priority[i].markers \cap keys # {} }

\* C8: with no declared type the kind is that of the first marker present
\* in the order temperature or humidity, switch, window, tilt, and unknown
\* when no marker is present.
C8_AutodetectPriority ==
    (cl_out # <<>> /\ cl_in.declared = <<>>) =>
        LET here == Present(cl_in.raw.keys) IN
        IF here = {} THEN cl_out[1] = <<>>
        ELSE \E i \in here :
                /\ \A j \in here : i <= j
                /\ cl_out[1] = <<Priority[i].kind>>

\* a payload with the window and the tilt marker, classified as a door
C8_Witness ==
    /\ cl_out = << <<"Door">> >>
    /\ cl_in.declared = <<>>
    /\ cl_in.raw.keys = {"window:0", "tilt:0"}

SameLetter(c, d) ==
    c = d \/ \E i \in DOMAIN UpperChars : {c, d} = {UpperChars[i], LowerChars[i]}
EqIgnoreCase(a, b) ==
    Len(a) = Len(b) /\ \A i \in DOMAIN a : SameLetter(a[i], b[i])

KindNames ==
    { <<W_temperature, "Temperature">>, <<W_plug, "Plug">>,
      <<W_door, "Door">>, <<W_window, "Window">> }

\* C9: a declared type that equals temperature, plug, door or window without
\* regard to letter case gives that kind, any other declared type gives
\* unknown, whatever the payload holds.
C9_DeclaredType ==
    (cl_out # <<>> /\ cl_in.declared # <<>>) =>
        IF \E k \in KindNames : EqIgnoreCase(cl_in.declared, k[1])
        THEN \E k \in KindNames :
                EqIgnoreCase(cl_in.declared, k[1]) /\ cl_out[1] = <<k[2]>>
        ELSE cl_out[1] = <<>>

\* "dOoR" with a payload that holds only the switch marker is a door
C9_Witness ==
    /\ cl_out = << <<"Door">> >>
    /\ cl_in.declared = <<"d","O","o","R">>
    /\ cl_in.raw.keys = {"switch:0"}

(***************************************************************************)
(* The Shared Status Table and its two producers.  The source file holds   *)
(* the poll loop alone; the table, its lock and the push producer are      *)
(* modelled from spec.md, sections 4.4 and 5: each of upsert and snapshot  *)
(* takes the table's one lock for the length of the operation.  An entry   *)
(* is written field by field, so that an operation running without the     *)
(* lock could see or leave a torn entry.                                   *)
(***************************************************************************)
MaxUpserts == 2

\* the device each producer writes: the two are different devices
id_of(p) == IF p = "poll" THEN <<"A">> ELSE <<"B">>

\* a lock that never excludes anyone (mutant)
can_lock_unguarded(l, p) == TRUE

\* the lock is taken only when no one holds it
can_lock(l, p) == l = "free"

set_p(f, p, v) == [f EXCEPT ![p] = v]

\* upsert(id, value) begins: the producer takes the lock
UpsertLock(p) ==
    /\ ppc[p] = "idle"
    /\ version[p] < MaxUpserts
    /\ can_lock(lock, p)
    /\ lock' = p
    /\ version' = set_p(version, p, version[p] + 1)
    /\ ppc' = set_p(ppc, p, "locked")
    /\ UNCHANGED <<table, completed, snapshot>>

\* the entry's text is replaced
UpsertText(p) ==
    /\ ppc[p] = "locked"
    /\ LET old == get(table, id_of(p))
           tip == IF old = <<>> THEN 0 ELSE old[1].tooltip
       IN table' = insert(table, id_of(p), [text |-> version[p], tooltip |-> tip])
    /\ ppc' = set_p(ppc, p, "half")
    /\ UNCHANGED <<lock, version, completed, snapshot>>

\* the entry's tooltip is replaced
UpsertTooltip(p) ==
    /\ ppc[p] = "half"
    /\ table' = insert(table, id_of(p),
                       [text |-> table[id_of(p)].text, tooltip |-> version[p]])
    /\ ppc' = set_p(ppc, p, "written")
    /\ UNCHANGED <<lock, version, completed, snapshot>>

\* upsert ends: the lock is released
UpsertUnlock(p) ==
    /\ ppc[p] = "written"
    /\ lock' = IF lock = p THEN "free" ELSE lock
    /\ completed' = set_p(completed, p, version[p])
    /\ ppc' = set_p(ppc, p, "idle")
    /\ UNCHANGED <<table, version, snapshot>>

\* snapshot() begins: the producer that publishes takes the lock
SnapshotLock(p) ==
    /\ ppc[p] = "idle"
    /\ completed[p] >= 1
    /\ can_lock(lock, p)
    /\ lock' = p
    /\ ppc' = set_p(ppc, p, "snap")
    /\ UNCHANGED <<table, version, completed, snapshot>>

\* snapshot() reads every entry and releases the lock
SnapshotRead(p) ==
    /\ ppc[p] = "snap"
    /\ snapshot' = << [entries |-> table, after |-> completed] >>
    /\ lock' = IF lock = p THEN "free" ELSE lock
    /\ ppc' = set_p(ppc, p, "idle")
    /\ UNCHANGED <<table, version, completed>>

Upsert ==
    \E p \in Producers :
        (UpsertLock(p) \/ UpsertText(p) \/ UpsertTooltip(p) \/ UpsertUnlock(p))
        /\ UNCHANGED <<loop_vars, class_vars>>

Snapshot ==
    \E p \in Producers :
        (SnapshotLock(p) \/ SnapshotRead(p)) /\ UNCHANGED <<loop_vars, class_vars>>

TableNext == Upsert \/ Snapshot

SpecTable == Init /\ [][TableNext]_vars

\* C10: a snapshot taken after the poll producer and the push producer have
\* each completed an upsert, for two different devices, holds both entries,
\* each whole and each the latest one completed; no snapshot holds a torn
\* entry.
C10_BothVisible ==
    snapshot # <<>> =>
        LET s == snapshot[1] IN
        /\ \A k \in DOMAIN s.entries : s.entries[k].text = s.entries[k].tooltip
        /\ \A p \in Producers :
              s.after[p] >= 1 =>
                 /\ id_of(p) \in DOMAIN s.entries
                 /\ s.entries[id_of(p)].text = s.after[p]

C10_Witness ==
    /\ snapshot # <<>>
    /\ \A p \in Producers : snapshot[1].after[p] >= 1
    /\ DOMAIN snapshot[1].entries = {<<"A">>, <<"B">>}

====
